---- MODULE Spec2Model ----
(***************************************************************************)
(* Model of steamcmd's Workshop pipeline (src/steamcmd/base.py):           *)
(* ServerBase.download_collections, _download_file,                        *)
(* _get_collection_file_ids, _get_steam_file_info, _allied_mods_download,  *)
(* ServerBase.install_app and Left4Dead2Server.install_app                 *)
(* (src/steamcmd/left4dead2.py).                                           *)
(*                                                                         *)
(* One call of one entry point is a process whose position is pc.  The     *)
(* remote service (its responses) and the local file system are the        *)
(* environment; every HTTP status is drawn from Statuses.                  *)
(***************************************************************************)
EXTENDS Integers, Sequences, FiniteSets, TLC

\* ------------------------------------------------------------------ bounds
MaxFileId == 2      \* file identifiers are 1..MaxFileId
MaxRetries == 2     \* the retries argument of a direct metadata call: 0..MaxRetries
MaxRuns == 2        \* consecutive runs of download_collections on one directory
MaxColls == 2       \* collections in a collection-expansion response
MaxChildren == 2    \* children of one collection in that response
MaxDetails == 2     \* elements of a file-details response

\* ------------------------------------------------------- program constants
DefaultRetries == 5 \* retries: int = 5, the default download_collections uses
HttpOk == 200       \* resp.status_code == 200

\* ------------------------------------------------------------- value sets
FileIds == 1..MaxFileId
Statuses == {HttpOk, 404, 500}
Sizes == {1, 2}
\* time_updated of the remote: in the past, or later than any local clock value
RemoteTimes == {1, 9}
Urls == {"", "u"}
\* a file name is the sequence of its characters
Names == {<<"m", ".", "v">>, <<"m">>, <<".", "v">>, <<"m", ".">>}
\* the files and the name the runs of the whole pipeline are about
PipelineIds == {1, 2}
PipelineNames == {<<"m", ".", "v">>}
NoFile == [exists |-> FALSE, size |-> 0, mtime |-> 0]

\* ------------------------------------------------------ sequence helpers
RECURSIVE SeqsUpTo(_, _)
\* every sequence over S of length at most n
SeqsUpTo(S, n) ==
    IF n = 0 THEN {<<>>}
    ELSE LET shorter == SeqsUpTo(S, n - 1)
         IN  shorter \cup {Append(s, x) : s \in {t \in shorter : Len(t) = n - 1}, x \in S}

Range(s) == {s[i] : i \in 1..Len(s)}

\* ------------------------------------------- _get_collection_file_ids (parse)
\* the inner loop without its membership test
RECURSIVE AppendChildrenAll(_, _)
AppendChildrenAll(resp, children) ==
    IF children = <<>> THEN resp
    ELSE AppendChildrenAll(Append(resp, Head(children)), Tail(children))

\* "if collection not in resp: resp.append(collection)" over one child list
RECURSIVE AppendChildren(_, _)
AppendChildren(resp, children) ==
    IF children = <<>> THEN resp
    ELSE LET collection == Head(children)
         IN  AppendChildren(IF collection \in Range(resp) THEN resp
                            ELSE Append(resp, collection),
                            Tail(children))

RECURSIVE ResolveFrom(_, _)
\* the outer loop over collections["collectiondetails"]
ResolveFrom(resp, collectiondetails) ==
    IF collectiondetails = <<>> THEN resp
    ELSE ResolveFrom(AppendChildren(resp, Head(collectiondetails)),
                     Tail(collectiondetails))

\* the list _get_collection_file_ids returns for a parsed response
ResolveMembership(collectiondetails) == ResolveFrom(<<>>, collectiondetails)

\* ------------------------------------------------ _get_steam_file_info (parse)
Keys(result) == {result[i].id : i \in 1..Len(result)}

\* a dict entry: the key and the four values the code copies
Entry(file_details) ==
    [id |-> file_details.publishedfileid,
     file_name |-> file_details.filename,
     file_size |-> file_details.file_size,
     time_updated |-> file_details.time_updated,
     file_url |-> file_details.file_url]

RECURSIVE ParseFromLast(_, _)
\* the loop without its "not in result" test: a later duplicate overwrites
ParseFromLast(result, publishedfiledetails) ==
    IF publishedfiledetails = <<>> THEN result
    ELSE LET file_details == Head(publishedfiledetails)
             id == file_details.publishedfileid
         IN  ParseFromLast(IF id \notin Keys(result)
                           THEN Append(result, Entry(file_details))
                           ELSE [i \in 1..Len(result) |->
                                    IF result[i].id = id THEN Entry(file_details)
                                    ELSE result[i]],
                           Tail(publishedfiledetails))

RECURSIVE ParseFrom(_, _)
\* the dict (in insertion order) built from response.publishedfiledetails
ParseFrom(result, publishedfiledetails) ==
    IF publishedfiledetails = <<>> THEN result
    ELSE LET file_details == Head(publishedfiledetails)
         IN  ParseFrom(IF file_details.publishedfileid \notin Keys(result)
                       THEN Append(result, Entry(file_details))
                       ELSE result,
                       Tail(publishedfiledetails))

ParseDetails(publishedfiledetails) == ParseFrom(<<>>, publishedfiledetails)

\* -------------------------------------------------------- destination path
RECURSIVE RFind(_, _)
\* str.rfind(".") over the first n characters: the last index holding ".", or 0
RFind(name, n) ==
    IF n = 0 THEN 0
    ELSE IF name[n] = "." THEN n ELSE RFind(name, n - 1)

\* pathlib's Path(name).suffix: from the last dot, unless the dot leads or ends
Suffix(name) ==
    LET i == RFind(name, Len(name))
    IN  IF i > 1 /\ i < Len(name) THEN SubSeq(name, i, Len(name)) ELSE <<>>

\* f"{k}{Path(details['file_name']).suffix}" under the install directory
FilePath(k, file_name) == <<k>> \o Suffix(file_name)

Paths == {FilePath(k, n) : k \in FileIds, n \in Names}

\* ---------------------------------------------------------- skip predicate
\* the predicate with "and" for "or"
SkipDownloadBoth(local, details) ==
    /\ local.exists
    /\ local.size = details.file_size
    /\ local.mtime > details.time_updated

\* base.py 172-176: exists and (size equal or local mtime later)
SkipDownload(local, details) ==
    /\ local.exists
    /\ \/ local.size = details.file_size
       \/ local.mtime > details.time_updated

\* raising on server errors only
RaisesForServerError(s) == s >= 500 /\ s < 600

\* requests' Response.raise_for_status raises on 4xx and 5xx
RaisesForStatus(s) == s >= 400 /\ s < 600

\* str(n) of a natural number: its decimal digits
RECURSIVE Str(_)
Str(n) == IF n < 10 THEN <<n>> ELSE Append(Str(n \div 10), n % 10)

\* --------------------------------------------------------------- responses
ChildLists == SeqsUpTo(FileIds, MaxChildren)
\* response.collectiondetails[].children[].publishedfileid
CollResponses == SeqsUpTo(ChildLists, MaxColls)
\* the two responses the whole pipeline is run against: none, and overlapping
PipelineCollResponses == {<<>>, <<<<1, 2>>, <<2>>>>}

DetailRecords ==
    [publishedfileid : FileIds, filename : Names, file_size : Sizes,
     time_updated : RemoteTimes, file_url : Urls]
\* the elements a direct call of _get_steam_file_info is answered with: two
\* names, and two settings of the other three fields that differ in each
DirectRecords ==
    {r \in DetailRecords :
        /\ r.filename \in {<<"m", ".", "v">>, <<"m">>}
        /\ \/ r.file_size = 1 /\ r.time_updated = 1 /\ r.file_url = "u"
           \/ r.file_size = 2 /\ r.time_updated = 9 /\ r.file_url = ""}
\* response.publishedfiledetails[]
DetResponses == SeqsUpTo(DirectRecords, MaxDetails)

PipelineRecords ==
    {r \in DetailRecords :
        r.publishedfileid \in PipelineIds /\ r.filename \in PipelineNames}
\* responses of the pipeline runs: at most one element per file, in id order
PipelineDetResponses ==
    {r \in SeqsUpTo(PipelineRecords, Cardinality(PipelineIds)) :
        \A i \in 1..Len(r) - 1 : r[i].publishedfileid < r[i + 1].publishedfileid}

\* local files a run can find: none, or a one-byte file of mtime 1 or 2
LocalFiles == {NoFile} \cup [exists : {TRUE}, size : {1}, mtime : {1, 2}]
PipelinePaths == {FilePath(k, n) : k \in PipelineIds, n \in PipelineNames}
InitialDirs ==
    {f \in [Paths -> LocalFiles] : \A p \in Paths \ PipelinePaths : f[p] = NoFile}
EmptyDir == [p \in Paths |-> NoFile]

\* ------------------------------------------------------------------- state
VARIABLES
    entry,          \* the entry point this behaviour calls
    pc,             \* position of the call
    run,            \* number of the current run of download_collections
    err,            \* the exception that ended the call, or "none"
    errStatus,      \* the status code that exception's message carries, or 0
    collection_ids, \* the collection_ids argument
    retries,        \* the retries argument of the metadata call in progress
    attempts,       \* iterations of "for _ in range(retries)" done
    status,         \* resp.status_code; 0 while resp is unbound
    okAt,           \* the iteration that received the first 200, or 0
    sent,           \* the distinct metadata requests posted in this run
    collResp,       \* the remote's collection-expansion response
    detResp,        \* the remote's file-details response
    file_ids,       \* result (or argument) file_ids
    file_details,   \* result of _get_steam_file_info, in insertion order
    idx,            \* position of the for loop over file_details.items()
    pathKind,       \* install_path: "dir", "file", "absent" or "noparent"
    logged,         \* LOG.exception was called for install_path
    created,        \* p.mkdir() made install_path
    fs,             \* files under install_path, by destination path
    now,            \* the clock that stamps written files
    downloads,      \* calls of _download_file in this run: caller, file, URL and
                    \* the status of the GET (0 when none was sent)
    written,        \* files written by _download_file, all runs
    script,         \* the file at steamcmd_script_path exists
    toolResult,     \* how subprocess.run of the tool ended, or "none"
    install_sourcemod, \* the constructor's install_sourcemod
    mod,            \* the archive _allied_mods_download is called for
    modFile,        \* the local archives under addons_path, by mod
    head,           \* headers of the HEAD response, NoHead before it
    file_changed,   \* what _allied_mods_download returned, by mod, or "none"
    extracted       \* the archives unpacked by tar.extractall

vars == <<entry, pc, run, err, errStatus, collection_ids, retries, attempts,
          status, okAt, sent, collResp, detResp, file_ids, file_details, idx,
          pathKind, logged, created, fs, now, downloads, written, script,
          toolResult, install_sourcemod, mod, modFile, head, file_changed, extracted>>

modVars == <<mod, modFile, head, file_changed, extracted>>
auxVars == <<script, toolResult, install_sourcemod, mod, modFile, head, file_changed, extracted>>
callVars == <<retries, attempts, status, okAt, sent>>
diskVars == <<pathKind, logged, created, fs, now, downloads, written>>
remoteVars == <<collResp, detResp>>

Entries ==
    {"download_collections", "_get_collection_file_ids", "_get_steam_file_info",
     "_allied_mods_download", "install_app"}

Mods == {"metamod", "sourcemod"}
NoHead == [length |-> <<>>, modified |-> 0]
\* Content-Length as the text of the header, <<>> when the header is missing
HeadResponses == [length : {<<>>, <<1>>, <<2>>, <<0, 1>>}, modified : RemoteTimes]
NoArchives == [m \in Mods |-> NoFile]

Init ==
    /\ entry \in Entries
    /\ run = 1
    /\ err = "none"
    /\ errStatus = 0
    /\ attempts = 0
    /\ status = 0
    /\ okAt = 0
    /\ sent = {}
    /\ collResp = <<>>
    /\ detResp = <<>>
    /\ file_details = <<>>
    /\ idx = 0
    /\ logged = FALSE
    /\ created = FALSE
    /\ now = 3
    /\ downloads = <<>>
    /\ written = {}
    /\ script = FALSE
    /\ toolResult = "none"
    /\ head = NoHead
    /\ file_changed = [m \in Mods |-> "none"]
    /\ extracted = {}
    /\ \/ /\ entry = "_allied_mods_download"
          /\ pc = "latest"
          /\ collection_ids = <<>>
          /\ retries = DefaultRetries
          /\ file_ids = <<>>
          /\ pathKind = "dir"
          /\ fs = EmptyDir
          /\ install_sourcemod = TRUE
          /\ mod = "metamod"
          /\ modFile \in {f \in [Mods -> LocalFiles] : f["sourcemod"] = NoFile}
       \/ /\ entry = "install_app"
          /\ pc = "install_app"
          /\ collection_ids \in {<<>>, <<7, 8>>}
          /\ retries = DefaultRetries
          /\ file_ids = <<>>
          /\ pathKind = "dir"
          /\ fs = EmptyDir
          /\ install_sourcemod \in BOOLEAN
          /\ mod = "none"
          /\ modFile \in {f \in [Mods -> LocalFiles] : f["sourcemod"] = NoFile}
       \/ /\ entry \in {"download_collections", "_get_collection_file_ids",
                         "_get_steam_file_info"}
          /\ install_sourcemod = FALSE
          /\ mod = "none"
          /\ modFile = NoArchives
    /\ \/ /\ entry \in {"_allied_mods_download", "install_app"}
       \/ /\ entry = "download_collections"
          /\ pc = "start"
          /\ collection_ids \in {<<>>, <<7, 8>>}
          /\ retries = DefaultRetries
          /\ file_ids = <<>>
          /\ pathKind \in {"dir", "file", "absent", "noparent"}
          /\ fs \in IF pathKind = "dir" THEN InitialDirs ELSE {EmptyDir}
       \/ /\ entry = "_get_collection_file_ids"
          /\ pc = "expand"
          /\ collection_ids \in {<<>>, <<7>>, <<7, 8>>}
          /\ retries \in 0..MaxRetries
          /\ file_ids = <<>>
          /\ pathKind = "dir"
          /\ fs = EmptyDir
       \/ /\ entry = "_get_steam_file_info"
          /\ pc = "details"
          /\ collection_ids = <<>>
          /\ retries \in 0..MaxRetries
          /\ file_ids \in {<<>>, <<1, 2>>}
          /\ pathKind = "dir"
          /\ fs = EmptyDir

\* ----------------------------------------------------------------- raising
Raise(e, s) ==
    /\ pc' = "raised"
    /\ err' = e
    /\ errStatus' = s

\* ------------------------------------------------------- the metadata calls
\* an iteration that posts nothing for an empty list of identifiers
PostUnlessEmpty(op, count, ids) ==
    /\ attempts < retries
    /\ status # HttpOk
    /\ attempts' = attempts + 1
    /\ \E s \in Statuses :
        /\ status' = s
        /\ okAt' = IF s = HttpOk /\ okAt = 0 THEN attempts + 1 ELSE okAt
    /\ sent' = IF ids = <<>> THEN sent
               ELSE sent \cup {[op |-> op, count |-> count, ids |-> ids]}

\* one iteration of "for _ in range(retries)": post, and break on 200
Post(op, count, ids) ==
    /\ attempts < retries
    /\ status # HttpOk
    /\ attempts' = attempts + 1
    /\ \E s \in Statuses :
        /\ status' = s
        /\ okAt' = IF s = HttpOk /\ okAt = 0 THEN attempts + 1 ELSE okAt
    /\ sent' = sent \cup {[op |-> op, count |-> count, ids |-> ids]}

\* a loop that gives up one iteration early
LoopOverEarly == attempts + 1 >= retries \/ status = HttpOk

\* the loop is over: range(retries) is exhausted or the loop broke
LoopOver == attempts = retries \/ status = HttpOk

\* base.py 218-221 and 256-259: resp unbound when the loop never ran
RaiseAfterLoop ==
    IF status = 0 THEN Raise("UnboundLocalError", 0)
    ELSE Raise("RemoteUnavailable", status)

\* _get_collection_file_ids, lines 208-216
CollectionRequest ==
    /\ UNCHANGED auxVars
    /\ pc = "expand"
    /\ Post("GetCollectionDetails", Str(Len(collection_ids)), collection_ids)
    /\ UNCHANGED <<entry, pc, run, err, errStatus, collection_ids, retries,
                   file_ids, file_details, idx>>
    /\ UNCHANGED remoteVars
    /\ UNCHANGED diskVars

\* _get_collection_file_ids, lines 218-234
CollectionResult ==
    /\ UNCHANGED auxVars
    /\ pc = "expand"
    /\ LoopOver
    /\ IF status # HttpOk
       THEN /\ RaiseAfterLoop
            /\ UNCHANGED <<collResp, file_ids, retries, attempts, status, okAt>>
       ELSE /\ \E r \in (IF entry = "_get_collection_file_ids" THEN CollResponses
                         ELSE IF run = 1 THEN PipelineCollResponses
                         ELSE {collResp}) :
                 /\ collResp' = r
                 /\ file_ids' = ResolveMembership(r)
            /\ IF entry = "_get_collection_file_ids"
               THEN pc' = "done" /\ UNCHANGED <<retries, attempts, status, okAt>>
               ELSE \* back in download_collections, then the next call
                    /\ pc' = "details"
                    /\ retries' = DefaultRetries
                    /\ attempts' = 0
                    /\ status' = 0
                    /\ okAt' = 0
            /\ UNCHANGED <<err, errStatus>>
    /\ UNCHANGED <<entry, run, collection_ids, sent, detResp, file_details, idx>>
    /\ UNCHANGED diskVars

\* _get_steam_file_info, lines 246-254
DetailsRequest ==
    /\ UNCHANGED auxVars
    /\ pc = "details"
    /\ Post("GetPublishedFileDetails", Len(file_ids), file_ids)
    /\ UNCHANGED <<entry, pc, run, err, errStatus, collection_ids, retries,
                   file_ids, file_details, idx>>
    /\ UNCHANGED remoteVars
    /\ UNCHANGED diskVars

\* _get_steam_file_info, lines 256-271
DetailsResult ==
    /\ UNCHANGED auxVars
    /\ pc = "details"
    /\ LoopOver
    /\ IF status # HttpOk
       THEN /\ RaiseAfterLoop
            /\ UNCHANGED <<detResp, file_details, idx, attempts, status, okAt>>
       ELSE /\ \E r \in (IF entry = "_get_steam_file_info" THEN DetResponses
                         ELSE IF run = 1 THEN PipelineDetResponses
                         ELSE {detResp}) :
                 /\ detResp' = r
                 /\ file_details' = ParseDetails(r)
            /\ IF entry = "_get_steam_file_info"
               THEN pc' = "done" /\ UNCHANGED <<idx, attempts, status, okAt>>
               ELSE \* back in download_collections: the call's locals are gone
                    /\ pc' = "loop"
                    /\ idx' = 1
                    /\ attempts' = 0
                    /\ status' = 0
                    /\ okAt' = 0
            /\ UNCHANGED <<err, errStatus>>
    /\ UNCHANGED <<entry, run, collection_ids, collResp, file_ids, retries, sent>>
    /\ UNCHANGED diskVars

\* ------------------------------------------------------ download_collections
\* a path check that raises for a path that is not a directory
DownloadCollectionsStartStrict ==
    /\ pc = "start"
    /\ IF pathKind \in {"noparent", "file"}
       THEN /\ Raise(IF pathKind = "file" THEN "NotADirectoryError"
                     ELSE "FileNotFoundError", 0)
            /\ UNCHANGED <<pathKind, logged, created>>
       ELSE /\ pc' = "expand"
            /\ pathKind' = IF pathKind = "absent" THEN "dir" ELSE pathKind
            /\ created' = (created \/ pathKind = "absent")
            /\ UNCHANGED <<logged, err, errStatus>>
    /\ UNCHANGED <<entry, run, collection_ids, file_ids, file_details, idx,
                   fs, now, downloads, written>>
    /\ UNCHANGED callVars
    /\ UNCHANGED remoteVars
    /\ UNCHANGED auxVars

\* lines 153-158: the install path check
DownloadCollectionsStart ==
    /\ UNCHANGED auxVars
    /\ pc = "start"
    /\ IF pathKind = "noparent"
       THEN \* p.mkdir() without parents=True
            /\ Raise("FileNotFoundError", 0)
            /\ UNCHANGED <<pathKind, logged, created>>
       ELSE /\ pc' = "expand"
            /\ pathKind' = IF pathKind = "absent" THEN "dir" ELSE pathKind
            /\ created' = (created \/ pathKind = "absent")
            /\ logged' = (logged \/ pathKind = "file")
            /\ UNCHANGED <<err, errStatus>>
    /\ UNCHANGED <<entry, run, collection_ids, file_ids, file_details, idx,
                   fs, now, downloads, written>>
    /\ UNCHANGED callVars
    /\ UNCHANGED remoteVars

\* a lookup that never finds the file
LocalFileMissing(path) == NoFile

\* Path.exists() is False for anything below a path that is not a directory
LocalFile(path) == IF pathKind = "dir" THEN fs[path] ELSE NoFile

\* a fetcher that opens the destination before it looks at the status
DownloadFileOpensFirst(k, file_url, file_path) ==
    IF file_url = ""
    THEN /\ downloads' = Append(downloads, [by |-> "download_collections", id |-> k,
                                            url |-> file_url, status |-> 0])
         /\ Raise("MissingSchema", 0)
         /\ UNCHANGED <<fs, now, written, idx>>
    ELSE \E s \in Statuses :
         /\ downloads' = Append(downloads, [by |-> "download_collections", id |-> k,
                                            url |-> file_url, status |-> s])
         /\ IF pathKind # "dir"
            THEN /\ Raise("NotADirectoryError", 0)
                 /\ UNCHANGED <<fs, now, written, idx>>
            ELSE IF RaisesForStatus(s)
            THEN /\ Raise("HTTPError", s)
                 /\ fs' = [fs EXCEPT ![file_path] =
                              [exists |-> TRUE, size |-> 0, mtime |-> now]]
                 /\ now' = now + 1
                 /\ UNCHANGED <<written, idx>>
            ELSE \E content \in Sizes :
                 /\ fs' = [fs EXCEPT ![file_path] =
                              [exists |-> TRUE, size |-> content, mtime |-> now]]
                 /\ written' = written \cup
                        {[id |-> k, path |-> file_path, size |-> content,
                          mtime |-> now, run |-> run]}
                 /\ now' = now + 1
                 /\ idx' = idx + 1
                 /\ UNCHANGED <<pc, err, errStatus>>

\* _download_file, lines 192-196, for the file at file_path
DownloadFile(k, file_url, file_path) ==
    IF file_url = ""
    THEN \* requests.get refuses a URL without a scheme: nothing is sent
         /\ downloads' = Append(downloads, [by |-> "download_collections", id |-> k,
                                            url |-> file_url, status |-> 0])
         /\ Raise("MissingSchema", 0)
         /\ UNCHANGED <<fs, now, written, idx>>
    ELSE \E s \in Statuses :
         /\ downloads' = Append(downloads, [by |-> "download_collections", id |-> k,
                                            url |-> file_url, status |-> s])
         /\ IF RaisesForStatus(s)
            THEN /\ Raise("HTTPError", s)
                 /\ UNCHANGED <<fs, now, written, idx>>
            ELSE IF pathKind # "dir"
            THEN \* open(file_path, "wb") below a regular file
                 /\ Raise("NotADirectoryError", 0)
                 /\ UNCHANGED <<fs, now, written, idx>>
            ELSE \E content \in Sizes :
                 /\ fs' = [fs EXCEPT ![file_path] =
                              [exists |-> TRUE, size |-> content, mtime |-> now]]
                 /\ written' = written \cup
                        {[id |-> k, path |-> file_path, size |-> content,
                          mtime |-> now, run |-> run]}
                 /\ now' = now + 1
                 /\ idx' = idx + 1
                 /\ UNCHANGED <<pc, err, errStatus>>

\* one iteration of the loop of lines 166-183
LoopStep ==
    /\ UNCHANGED auxVars
    /\ pc = "loop"
    /\ idx <= Len(file_details)
    /\ LET details == file_details[idx]
           k == details.id
           file_path == FilePath(k, details.file_name)
       IN  IF SkipDownload(LocalFile(file_path), details)
           THEN /\ idx' = idx + 1
                /\ UNCHANGED <<pc, err, errStatus, fs, now, downloads, written>>
           ELSE DownloadFile(k, details.file_url, file_path)
    /\ UNCHANGED <<entry, run, collection_ids, file_ids, file_details,
                   pathKind, logged, created>>
    /\ UNCHANGED callVars
    /\ UNCHANGED remoteVars

\* the loop is exhausted: download_collections returns
LoopEnd ==
    /\ UNCHANGED auxVars
    /\ pc = "loop"
    /\ idx > Len(file_details)
    /\ pc' = IF entry = "install_app" THEN "sourcemod" ELSE "done"
    /\ UNCHANGED <<entry, run, err, errStatus, collection_ids, file_ids,
                   file_details, idx>>
    /\ UNCHANGED callVars
    /\ UNCHANGED remoteVars
    /\ UNCHANGED diskVars

\* the caller runs download_collections again: same arguments, same remote,
\* the directory as the last run left it
Rerun ==
    /\ UNCHANGED auxVars
    /\ entry = "download_collections"
    /\ pc = "done"
    /\ run < MaxRuns
    /\ run' = run + 1
    /\ pc' = "start"
    /\ retries' = DefaultRetries
    /\ attempts' = 0
    /\ status' = 0
    /\ okAt' = 0
    /\ sent' = {}
    /\ file_ids' = <<>>
    /\ file_details' = <<>>
    /\ idx' = 0
    /\ downloads' = <<>>
    /\ UNCHANGED <<entry, err, errStatus, collection_ids, pathKind, logged,
                   created, fs, now, written>>
    /\ UNCHANGED remoteVars

\* ------------------------------------------------------ ServerBase.install_app
\* lines 107-115: render the template and write the script
InstallAppWrite ==
    /\ pc = "install_app"
    /\ script' = TRUE
    /\ pc' = "run"
    /\ UNCHANGED <<entry, run, err, errStatus, collection_ids, file_ids,
                   file_details, idx, toolResult, install_sourcemod>>
    /\ UNCHANGED callVars
    /\ UNCHANGED remoteVars
    /\ UNCHANGED diskVars
    /\ UNCHANGED modVars

\* the try block without the unlink of its except clause
InstallAppRunLeaks ==
    /\ pc = "run"
    /\ IF script
       THEN \E outcome \in {"zero", "nonzero", "oserror"} :
            /\ toolResult' = outcome
            /\ IF outcome = "zero"
               THEN /\ script' = FALSE
                    /\ pc' = "collections"
                    /\ UNCHANGED <<err, errStatus>>
               ELSE /\ UNCHANGED script
                    /\ Raise(IF outcome = "nonzero" THEN "Exception" ELSE "OSError", 0)
       ELSE /\ pc' = "collections"
            /\ UNCHANGED <<script, toolResult, err, errStatus>>
    /\ UNCHANGED <<entry, run, collection_ids, file_ids, file_details, idx,
                   install_sourcemod>>
    /\ UNCHANGED callVars
    /\ UNCHANGED remoteVars
    /\ UNCHANGED diskVars
    /\ UNCHANGED modVars

\* lines 117-137: run the tool if the script is there; the tool returns zero,
\* returns non-zero (raise Exception) or cannot be launched (run raises); the
\* except clause and line 136 unlink the script on each way out
InstallAppRun ==
    /\ pc = "run"
    /\ IF script
       THEN \E outcome \in {"zero", "nonzero", "oserror"} :
            /\ toolResult' = outcome
            /\ script' = FALSE
            /\ IF outcome = "zero"
               THEN pc' = "collections" /\ UNCHANGED <<err, errStatus>>
               ELSE Raise(IF outcome = "nonzero" THEN "Exception" ELSE "OSError", 0)
       ELSE /\ pc' = "collections"
            /\ UNCHANGED <<script, toolResult, err, errStatus>>
    /\ UNCHANGED <<entry, run, collection_ids, file_ids, file_details, idx,
                   install_sourcemod>>
    /\ UNCHANGED callVars
    /\ UNCHANGED remoteVars
    /\ UNCHANGED diskVars
    /\ UNCHANGED modVars

\* ------------------------------------------------ Left4Dead2Server.install_app
\* left4dead2.py 84-88: download_collections only for a non-empty list
InstallAppCollections ==
    /\ pc = "collections"
    /\ pc' = IF Len(collection_ids) > 0 THEN "start" ELSE "sourcemod"
    /\ UNCHANGED <<entry, run, err, errStatus, collection_ids, file_ids,
                   file_details, idx>>
    /\ UNCHANGED callVars
    /\ UNCHANGED remoteVars
    /\ UNCHANGED diskVars
    /\ UNCHANGED auxVars

\* left4dead2.py 90-92: _install_metamod, then _install_sourcemod
InstallAppSourcemod ==
    /\ pc = "sourcemod"
    /\ IF install_sourcemod
       THEN pc' = "latest" /\ mod' = "metamod"
       ELSE pc' = "done" /\ UNCHANGED mod
    /\ UNCHANGED <<entry, run, err, errStatus, collection_ids, file_ids,
                   file_details, idx, script, toolResult, install_sourcemod,
                   modFile, head,
                   file_changed, extracted>>
    /\ UNCHANGED callVars
    /\ UNCHANGED remoteVars
    /\ UNCHANGED diskVars

\* ------------------------------------------------------ _allied_mods_download
\* timedelta.days: whole days, rounded down
Days(seconds) == seconds \div (24 * 3600)

\* the comparison with "or" for "and"
AlliedSkipEither(local, h) ==
    LET remote_size == h.length
        local_size == Str(local.size)
        time_diff == h.modified - local.mtime
    IN  remote_size = local_size \/ Days(time_diff) < 0

\* line 315: the archive is taken to be installed already
AlliedSkip(local, h) ==
    LET remote_size == h.length
        local_size == Str(local.size)
        time_diff == h.modified - local.mtime
    IN  remote_size = local_size /\ Days(time_diff) < 0

\* _allied_mods_download returned v: _install_metamod/_install_sourcemod unpack
\* the archive when v is TRUE (lines 341-344, 363-366), and the next mod follows
AlliedReturn(v) ==
    /\ file_changed' = [file_changed EXCEPT ![mod] = IF v THEN "True" ELSE "False"]
    /\ extracted' = IF v THEN extracted \cup {mod} ELSE extracted
    /\ IF entry = "install_app" /\ mod = "metamod"
       THEN pc' = "latest" /\ mod' = "sourcemod"
       ELSE pc' = "done" /\ UNCHANGED mod
    /\ UNCHANGED <<err, errStatus>>

\* lines 292-302: GET the name of the latest archive
AlliedLatest ==
    /\ pc = "latest"
    /\ \E s \in Statuses :
        IF s # HttpOk
        THEN Raise("Exception", 0)
        ELSE /\ pc' = IF modFile[mod].exists THEN "head" ELSE "fetch"
             /\ UNCHANGED <<err, errStatus>>
    /\ head' = NoHead
    /\ UNCHANGED <<entry, run, collection_ids, file_ids, file_details, idx,
                   script, toolResult, install_sourcemod, mod, modFile, file_changed,
                   extracted>>
    /\ UNCHANGED callVars
    /\ UNCHANGED remoteVars
    /\ UNCHANGED diskVars

\* lines 303-317: HEAD the archive and compare it with the local one
AlliedHead ==
    /\ pc = "head"
    /\ \E h \in HeadResponses :
        /\ head' = h
        /\ IF h.length = <<>>
           THEN \* resp.headers["Content-Length"]
                /\ Raise("KeyError", 0)
                /\ UNCHANGED <<mod, file_changed, extracted>>
           ELSE IF AlliedSkip(modFile[mod], h)
           THEN AlliedReturn(FALSE)
           ELSE /\ pc' = "fetch"
                /\ UNCHANGED <<err, errStatus, mod, file_changed, extracted>>
    /\ UNCHANGED <<entry, run, collection_ids, file_ids, file_details, idx,
                   script, toolResult, install_sourcemod, modFile>>
    /\ UNCHANGED callVars
    /\ UNCHANGED remoteVars
    /\ UNCHANGED diskVars

\* lines 319-322: _download_file(download_url, install_path), return True
AlliedFetch ==
    /\ pc = "fetch"
    /\ \E s \in Statuses :
        /\ downloads' = Append(downloads, [by |-> "_allied_mods_download", id |-> mod,
                                           url |-> "allied", status |-> s])
        /\ IF RaisesForStatus(s)
           THEN /\ Raise("HTTPError", s)
                /\ UNCHANGED <<modFile, now, mod, file_changed, extracted>>
           ELSE \E content \in Sizes :
                /\ modFile' = [modFile EXCEPT ![mod] =
                                  [exists |-> TRUE, size |-> content, mtime |-> now]]
                /\ now' = now + 1
                /\ AlliedReturn(TRUE)
    /\ UNCHANGED <<head, entry, run, collection_ids, file_ids, file_details, idx,
                   script, toolResult, install_sourcemod, pathKind, logged, created, fs,
                   written>>
    /\ UNCHANGED callVars
    /\ UNCHANGED remoteVars

Next ==
    \/ DownloadCollectionsStart
    \/ CollectionRequest
    \/ CollectionResult
    \/ DetailsRequest
    \/ DetailsResult
    \/ LoopStep
    \/ LoopEnd
    \/ Rerun
    \/ InstallAppWrite
    \/ InstallAppRun
    \/ InstallAppCollections
    \/ InstallAppSourcemod
    \/ AlliedLatest
    \/ AlliedHead
    \/ AlliedFetch

Spec == Init /\ [][Next]_vars

\* ==================================================================== claims
Pipeline == {"download_collections", "install_app"}
DirectMetadata == {"_get_collection_file_ids", "_get_steam_file_info"}

\* C1: in the loop of download_collections a file whose local size equals the
\* remote file_size is not handed to _download_file, a file whose local mtime
\* is strictly greater than the remote time_updated is not handed to it, and a
\* file for which neither holds (also when no local file exists) is.
C1_SkipPredicate ==
    [][(pc = "loop" /\ idx <= Len(file_details)) =>
        LET details == file_details[idx]
            path == FilePath(details.id, details.file_name)
            present == pathKind = "dir" /\ fs[path].exists
            sameSize == present /\ fs[path].size = details.file_size
            newer == present /\ fs[path].mtime > details.time_updated
        IN  /\ sameSize => downloads' = downloads
            /\ newer => downloads' = downloads
            /\ (~sameSize /\ ~newer) =>
                  /\ Len(downloads') = Len(downloads) + 1
                  /\ downloads'[Len(downloads')].id = details.id]_vars

\* a file of equal size is passed over although the remote is newer
C1_Witness ==
    /\ entry = "download_collections"
    /\ run = 1
    /\ pc = "loop"
    /\ idx = 2
    /\ downloads = <<>>
    /\ LET details == file_details[1]
           local == fs[FilePath(details.id, details.file_name)]
       IN  /\ local.exists
           /\ local.size = details.file_size
           /\ local.mtime < details.time_updated

\* C2: for every value of retries, a metadata call whose responses are all
\* non-success posts retries requests and fails with RemoteUnavailable carrying
\* the last status; after the first success response no request is posted (one
\* request when the first response is the success).
C2_RetryTermination ==
    entry \in DirectMetadata =>
        /\ okAt # 0 => attempts = okAt
        /\ (pc \in {"done", "raised"} /\ okAt = 0) =>
              /\ attempts = retries
              /\ err = "RemoteUnavailable"
              /\ errStatus = status

\* the remote's record for a file, as _get_steam_file_info returns it
Declared(id) ==
    LET d == ParseDetails(detResp)
    IN  d[CHOOSE i \in 1..Len(d) : d[i].id = id]

\* the written file satisfies the skip predicate against the remote's record
Fresh(w) ==
    \/ w.size = Declared(w.id).file_size
    \/ w.mtime > Declared(w.id).time_updated

\* C3 as stated: a second run of download_collections, same remote, directory
\* untouched, hands no file to _download_file.
C3_Idempotence ==
    (entry = "download_collections" /\ run >= 2) => downloads = <<>>

\* C3 amended: a later run hands no file to _download_file provided every file
\* the earlier runs wrote has the remote's file_size or an mtime strictly
\* greater than the remote's time_updated.
C3_IdempotentWhenFresh ==
    (/\ entry = "download_collections"
     /\ run >= 2
     /\ \A w \in written : w.run < run => Fresh(w)) => downloads = <<>>

\* the second run finishes without a download after a first run that wrote
C3_Witness ==
    /\ entry = "download_collections"
    /\ run = 2
    /\ pc = "done"
    /\ written # {}
    /\ \A w \in written : Fresh(w)
    /\ Len(file_details) = 2
    /\ downloads = <<>>

RECURSIVE Flat(_)
\* the children of a response, in the order of the response
Flat(collectiondetails) ==
    IF collectiondetails = <<>> THEN <<>>
    ELSE Head(collectiondetails) \o Flat(Tail(collectiondetails))

FirstIndex(x, s) == CHOOSE i \in 1..Len(s) : s[i] = x /\ \A j \in 1..i - 1 : s[j] # x

\* C4: the list _get_collection_file_ids returns holds each FileID at most
\* once, holds exactly the FileIDs of the response's child lists, and orders
\* them by first occurrence in the response.
C4_Dedup ==
    (\/ entry = "_get_collection_file_ids" /\ pc = "done"
     \/ entry \in Pipeline /\ pc \in {"details", "loop"}) =>
        LET flat == Flat(collResp)
        IN  /\ \A i, j \in 1..Len(file_ids) : file_ids[i] = file_ids[j] => i = j
            /\ Range(file_ids) = Range(flat)
            /\ \A i, j \in 1..Len(file_ids) :
                  i < j => FirstIndex(file_ids[i], flat) < FirstIndex(file_ids[j], flat)

\* two collections with the same two children, the second in another order
C4_Witness ==
    /\ entry = "_get_collection_file_ids"
    /\ pc = "done"
    /\ collResp = <<<<2, 1>>, <<1, 2>>>>
    /\ file_ids = <<2, 1>>

RECURSIVE Value(_)
\* the number a text of decimal digits denotes
Value(digits) ==
    IF digits = <<>> THEN 0
    ELSE 10 * Value(SubSeq(digits, 1, Len(digits) - 1)) + digits[Len(digits)]

\* the HEAD response has been compared with the local archive of mod
Compared == head # NoHead /\ head.length # <<>>

\* C5 as stated: _allied_mods_download skips under the planner's predicate:
\* local size equal to Content-Length, or local mtime strictly later than
\* Last-Modified.
C5_SamePredicate ==
    (pc = "fetch" /\ Compared) =>
        ~ SkipDownload(modFile[mod],
                       [file_size |-> Value(head.length),
                        time_updated |-> head.modified])

\* C5 amended: with a local archive, _allied_mods_download returns False
\* without a download only when the Content-Length text is the decimal text of
\* the local size and the local mtime is strictly later than Last-Modified;
\* when either fails it calls _download_file, and it returns True only after
\* that download wrote the archive.
C5_BothConditions ==
    LET sameText == head.length = Str(modFile[mod].size)
        later == modFile[mod].mtime > head.modified
    IN  /\ (pc = "fetch" /\ Compared) => ~(sameText /\ later)
        /\ (pc = "fetch" /\ ~Compared) => ~modFile[mod].exists
        /\ (entry = "_allied_mods_download" /\ pc = "done"
                /\ file_changed[mod] = "False") =>
              /\ Compared /\ sameText /\ later
              /\ downloads = <<>>
        /\ \A m \in Mods : file_changed[m] = "True" =>
              /\ modFile[m].exists
              /\ \E i \in 1..Len(downloads) :
                    /\ downloads[i].by = "_allied_mods_download"
                    /\ downloads[i].id = m
                    /\ downloads[i].status = HttpOk

\* the archive has the remote's size but is not newer: it is fetched again
C5_Witness ==
    /\ entry = "_allied_mods_download"
    /\ pc = "fetch"
    /\ Compared
    /\ head.length = Str(modFile[mod].size)
    /\ modFile[mod].mtime <= head.modified

\* C6: every file download_collections hands to _download_file has a
\* non-empty file_url.
C6_NonEmptyUrl ==
    \A i \in 1..Len(downloads) :
        downloads[i].by = "download_collections" => downloads[i].url # ""

\* C7: a run of download_collections in which a metadata call used up its
\* retries without a 200 starts no download, writes no file, and ends there:
\* the requests posted are the retries of that one call.
C7_RemoteUnavailableFatal ==
    (entry \in Pipeline /\ err = "RemoteUnavailable") =>
        /\ pc = "raised"
        /\ downloads = <<>>
        /\ \A w \in written : w.run < run
        /\ attempts = DefaultRetries
        /\ status # HttpOk
        /\ ~ ENABLED Next

\* the file-details call fails after the expansion succeeded
C7_Witness ==
    /\ entry = "download_collections"
    /\ err = "RemoteUnavailable"
    /\ file_ids # <<>>
    /\ \E r \in sent : r.op = "GetPublishedFileDetails"
    /\ \E p \in Paths : fs[p].exists

\* C8: a content GET of download_collections that returns a non-success status
\* is the last one of the run: it is not repeated, the run ends with an error,
\* no later file is tried, and the files written earlier in the run are still
\* on disk as written.
C8_TransferFailedAborts ==
    entry \in Pipeline =>
        \A i \in 1..Len(downloads) :
            (/\ downloads[i].by = "download_collections"
             /\ downloads[i].status \notin {0, HttpOk}) =>
                /\ i = Len(downloads)
                /\ pc = "raised"
                /\ err = "HTTPError"
                /\ errStatus = downloads[i].status
                /\ idx <= Len(file_details)
                /\ file_details[idx].id = downloads[i].id
                /\ \A j \in 1..i - 1 : downloads[j].id # downloads[i].id
                /\ \A w \in written : w.run = run =>
                      fs[w.path] = [exists |-> TRUE, size |-> w.size, mtime |-> w.mtime]
                /\ ~ ENABLED Next

\* the second file fails after the first was written in the same run
C8_Witness ==
    /\ entry = "download_collections"
    /\ err = "HTTPError"
    /\ idx = 2
    /\ Len(downloads) = 2
    /\ \E w \in written : w.run = run

ZeroExpansion == [op |-> "GetCollectionDetails", count |-> <<0>>, ids |-> <<>>]
ZeroDetails == [op |-> "GetPublishedFileDetails", count |-> 0, ids |-> <<>>]
PastExpansion == {"details", "loop", "sourcemod", "latest", "head", "fetch", "done"}
PastDetails == {"loop", "sourcemod", "latest", "head", "fetch", "done"}

\* C9 as stated: at every entry point that takes collection IDs an empty list
\* still sends the expansion request with a count of zero, and an empty list
\* of FileIDs still sends the file-details request with a count of zero.
C9_EmptyStillSent ==
    (entry \in Pipeline /\ collection_ids = <<>>) =>
        /\ pc \in PastExpansion => ZeroExpansion \in sent
        /\ (pc \in PastDetails /\ file_ids = <<>>) => ZeroDetails \in sent

\* C9 amended: download_collections and the two metadata calls send the
\* zero-count requests for empty lists; Left4Dead2Server.install_app with an
\* empty list does not call download_collections and sends no metadata request.
C9_EmptySentUnlessGuarded ==
    /\ (entry = "download_collections" /\ collection_ids = <<>>) =>
          /\ pc \in PastExpansion => ZeroExpansion \in sent
          /\ (pc \in PastDetails /\ file_ids = <<>>) => ZeroDetails \in sent
    /\ (entry = "_get_collection_file_ids" /\ collection_ids = <<>> /\ pc = "done") =>
          ZeroExpansion \in sent
    /\ (entry = "_get_steam_file_info" /\ file_ids = <<>> /\ pc = "done") =>
          ZeroDetails \in sent
    /\ (entry = "install_app" /\ collection_ids = <<>>) => sent = {}

\* download_collections([]) has finished and both requests went out
C9_Witness ==
    /\ entry = "download_collections"
    /\ collection_ids = <<>>
    /\ pc = "done"
    /\ sent = {ZeroExpansion, ZeroDetails}

\* C10: an install path that exists and is not a directory is logged and does
\* not end download_collections at the path check: the run goes on to the
\* metadata requests and the loop; a path that does not exist is made before
\* any metadata request is posted.
C10_InvalidPathLogged ==
    entry = "download_collections" =>
        /\ (pathKind = "file" /\ pc # "start") => logged
        /\ (pathKind = "file" /\ pc = "raised") => sent # {}
        /\ sent # {} => pathKind \in {"dir", "file"}
        /\ created => pathKind = "dir"
        /\ (pathKind = "absent") => pc = "start" /\ run = 1

\* below a regular file the loop is reached and a download is tried
C10_Witness ==
    /\ entry = "download_collections"
    /\ pathKind = "file"
    /\ logged
    /\ err = "NotADirectoryError"
    /\ downloads # <<>>

\* the earliest element of the file-details response with this publishedfileid
Earliest(id) ==
    detResp[CHOOSE i \in 1..Len(detResp) :
                /\ detResp[i].publishedfileid = id
                /\ \A j \in 1..i - 1 : detResp[j].publishedfileid # id]

\* C11: the mapping _get_steam_file_info returns has exactly one entry per
\* distinct publishedfileid of the response, and that entry's name, size,
\* timestamp and URL are those of the earliest response element with that ID.
C11_FirstOccurrenceWins ==
    (\/ entry = "_get_steam_file_info" /\ pc = "done"
     \/ entry \in Pipeline /\ pc = "loop") =>
        /\ Keys(file_details) = {detResp[i].publishedfileid : i \in 1..Len(detResp)}
        /\ \A i, j \in 1..Len(file_details) :
              file_details[i].id = file_details[j].id => i = j
        /\ \A i \in 1..Len(file_details) :
              LET first == Earliest(file_details[i].id)
              IN  /\ file_details[i].file_name = first.filename
                  /\ file_details[i].file_size = first.file_size
                  /\ file_details[i].time_updated = first.time_updated
                  /\ file_details[i].file_url = first.file_url

\* the response names one file twice, with another name, size, time and URL
C11_Witness ==
    /\ entry = "_get_steam_file_info"
    /\ pc = "done"
    /\ Len(detResp) = 2
    /\ detResp[1].publishedfileid = detResp[2].publishedfileid
    /\ detResp[1].filename # detResp[2].filename
    /\ detResp[1].file_size # detResp[2].file_size
    /\ detResp[1].time_updated # detResp[2].time_updated
    /\ detResp[1].file_url # detResp[2].file_url
    /\ Len(file_details) = 1

\* C12: a call of _download_file whose GET returns a non-success status
\* leaves every local file as it was: the destination is neither created,
\* truncated nor modified.
C12_FailedTransferUntouched ==
    [][(/\ Len(downloads') = Len(downloads) + 1
        /\ downloads'[Len(downloads')].status \notin {0, HttpOk}) =>
            /\ fs' = fs
            /\ modFile' = modFile
            /\ written' = written]_vars

\* the GET for a stale installed file failed and the file is still there
C12_Witness ==
    /\ entry = "download_collections"
    /\ err = "HTTPError"
    /\ run = 1
    /\ idx = 1
    /\ LET details == file_details[idx]
           local == fs[FilePath(details.id, details.file_name)]
       IN  /\ local.exists
           /\ local.size # details.file_size
           /\ local.mtime <= details.time_updated
           /\ local.mtime < now

\* C13: once ServerBase.install_app has written the script, the script is
\* gone when install_app is left, whether the tool returned zero, returned
\* non-zero or could not be launched, and a non-zero return code always ends
\* install_app with a raised error.
C13_ScriptRemoved ==
    entry = "install_app" =>
        /\ pc \notin {"install_app", "run"} => ~script
        /\ pc \notin {"install_app", "run"} => toolResult # "none"
        /\ toolResult # "none" => ~script
        /\ toolResult = "nonzero" => pc = "raised" /\ err = "Exception"
        /\ toolResult = "oserror" => pc = "raised" /\ err = "OSError"
        /\ script => pc = "run"

\* the tool returned non-zero: the error is raised and the script is gone
C13_Witness ==
    /\ entry = "install_app"
    /\ toolResult = "nonzero"
    /\ pc = "raised"
    /\ err = "Exception"
    /\ ~script

====
